---- MODULE Spec2Model ----
(***************************************************************************)
(* fing.chat speech-to-text: the batch WebSocket server and the local      *)
(* capture loop of server/main.py, the duplex client of server/main.py and *)
(* the incremental (Vosk) server of server/stt_server.py, as state         *)
(* machines.  One action is one handler step (one message received, one    *)
(* frame read), including everything the code does before it waits again.  *)
(***************************************************************************)
EXTENDS Integers, Sequences, FiniteSets, TLC

(***************************************************************************)
(* Program constants (server/main.py).                                     *)
(***************************************************************************)
SILENCE_THRESHOLD == 500
SILENCE_CHUNKS == 30

(***************************************************************************)
(* Bounds of the model.                                                    *)
(***************************************************************************)
\* messages one batch-server session receives / frames one capture reads
MaxMsgs == 32
\* of those, the ones that are not the plain quiet frame
MaxSpecial == 1
\* frames one local capture session reads
MaxReads == 63
\* loud prefix length of the scripted feeds
MaxK == 5
\* frames the duplex client's Sender sends, messages its Receiver gets
MaxClientMsgs == 3
\* messages one incremental-server session receives
MaxIncMsgs == 5
\* callers of load_model, and the threads they run on
MaxCallers == 3
MaxThreads == 2
\* messages each of two concurrent sessions receives
MaxSessionMsgs == 2
\* malformed messages in a row from one peer that count as repeated violation
RepeatedViolations == 2

(***************************************************************************)
(* Audio frames: sequences of int16 samples.                               *)
(***************************************************************************)
Quiet == <<499, -499>>
Loud == <<-500, 0>>
MinRail == <<-32768, 0>>
FrameSet == {Quiet, Loud, MinRail}
\* a binary message of no bytes: an array of no samples
EmptyFrame == <<>>

\* two's-complement wrap of an integer to 16 bits
Wrap16(n) == ((n + 32768) % 65536) - 32768

\* np.abs on an int16 array: the negation is computed in int16
AbsInt16(x) == IF x < 0 THEN Wrap16(0 - x) ELSE x

\* the largest element of a non-empty set of integers
MaxOfSet(S) == CHOOSE m \in S : \A y \in S : y <= m

\* np.max(np.abs(audio_data)) of a non-empty frame
Peak(f) == MaxOfSet({AbsInt16(f[i]) : i \in DOMAIN f})

\* the silence test of the gate
IsSilent(f) == Peak(f) < SILENCE_THRESHOLD

\* the counter after the frame: one more silent frame, or back to 0
UpdatedSilentChunks(count, f) == IF IsSilent(f) THEN count + 1 ELSE 0

(***************************************************************************)
(* Text: sequences of one-character strings.                               *)
(***************************************************************************)
Eos == <<"e", "o", "s">>
EosShouted == <<" ", "E", "O", "S">>
Stop == <<"s", "t", "o", "p">>
Exit == <<"e", "x", "i", "t">>
TextSet == {Eos, EosShouted, Stop}

\* what the recognizer returns as result["text"]
RawTexts == {<<" ">>, <<" ", "H", "i">>}
RawTextsLocal == {<<" ">>, <<" ", "H", "i">>, <<"E", "x", "i", "t", " ">>}
\* the translation service's answer
TranslatedText == <<"m", "o", "i">>

LowerChar(c) ==
    CASE c = "E" -> "e"
      [] c = "O" -> "o"
      [] c = "S" -> "s"
      [] c = "H" -> "h"
      [] c = "X" -> "x"
      [] c = "I" -> "i"
      [] c = "T" -> "t"
      [] OTHER -> c

\* str.lower()
Lower(s) == [i \in DOMAIN s |-> LowerChar(s[i])]

IsSpace(c) == c = " "

RECURSIVE LStrip(_)
LStrip(s) == IF s # <<>> /\ IsSpace(Head(s)) THEN LStrip(Tail(s)) ELSE s

RECURSIVE RStrip(_)
RStrip(s) ==
    IF s # <<>> /\ IsSpace(s[Len(s)]) THEN RStrip(SubSeq(s, 1, Len(s) - 1)) ELSE s

\* str.strip()
Strip(s) == RStrip(LStrip(s))

\* .strip().lower(), applied to commands and to recognized text
Normalize(s) == Lower(Strip(s))

BytesMsg(f) == [type |-> "bytes", data |-> f]
TextMsg(s) == [type |-> "text", data |-> s]
QuietMsg == BytesMsg(Quiet)

VARIABLES
    \* ---- batch WS server session (_server_transcribe_from_chunks) ----
    spc,              \* "open": in the async-for loop; "closed": returned
    frames,           \* the accumulation buffer (indices into received)
    silent_chunks,    \* consecutive silent frames
    received,         \* every message the session has received, in order
    recognizer_calls, \* every segment handed to mlx_whisper.transcribe
    sent,             \* every JSON result sent back on the websocket
    \* ---- local capture (transcribe_audio) ----
    lpc,              \* "init", "listening", "returned", "raised"
    local_mode,       \* "single" or "interactive" (the caller's flags)
    local_frames,     \* frames of the current capture (indices into local_read)
    local_silent_chunks,
    local_read,       \* every frame read from the device, in order
    local_calls,      \* every segment handed to mlx_whisper.transcribe
    local_out,        \* lines printed on stdout
    local_stream,     \* <<times the device was opened, times it was released>>
    local_ret,        \* what transcribe_audio returned
    \* ---- duplex client (ws_client_stream_mic) ----
    cpc,              \* "init", "connecting", "running", "returned", "raised"
    client_stream,    \* <<times the device was opened, times it was released>>
    client_ws,        \* <<times the transport was opened, times it was closed>>
    sender,           \* send_task: "none", "running", "done", "failed", "cancelled"
    receiver,         \* recv_task: "none", "running", "done", "failed", "cancelled"
    peer_open,        \* the server has not closed the transport
    client_read,      \* number of frames read from the device
    client_sent,      \* frames written to the transport (their read numbers)
    client_got,       \* messages the Receiver has taken from the transport
    client_out,       \* lines printed on stdout
    \* ---- incremental server session (websocket_endpoint) ----
    ipc,              \* "accepted", "recv_bytes", "recv_text", "closed", "raised"
    rec_created,      \* the local rec exists
    inc_pending,      \* the recognizer holds audio it has not given a result for
    flush_count,      \* calls of rec.FinalResult()
    close_count,      \* calls of ws.close()
    inc_received,     \* messages the session has taken from the transport
    inc_out,          \* types of the messages sent to the client, in order
    \* ---- the shared model handle (stt_server.py load_model) ----
    _model,           \* 0 for None, else the number of the Model object it holds
    constructed,      \* Model objects constructed so far in this process
    load_pc,          \* each caller's position in load_model
    load_thread,      \* the thread each caller runs on
    \* ---- the serving process and its concurrent sessions ----
    serving,          \* "batch" (main.py --server), "inc" (stt_server.py), "none"
    cur,              \* the session whose handler the event loop is running
    other,            \* the locals of the suspended handler of the other session
    \* ---- scripted input ----
    feed              \* the frames a scripted run feeds, in order

serverVars == <<spc, frames, silent_chunks, received, recognizer_calls, sent>>
localVars == <<lpc, local_mode, local_frames, local_silent_chunks, local_read,
               local_calls, local_out, local_stream, local_ret>>
clientVars == <<cpc, client_stream, client_ws, sender, receiver, peer_open,
                client_read, client_sent, client_got, client_out>>
incVars == <<ipc, rec_created, inc_pending, flush_count, close_count, inc_received,
             inc_out>>
loadVars == <<_model, constructed, load_pc, load_thread>>
sessionVars == <<serving, cur, other>>
vars == <<serverVars, localVars, clientVars, incVars, loadVars, sessionVars, feed>>

\* messages of a session that are not the plain quiet frame
SpecialCount(msgs) == Cardinality({i \in DOMAIN msgs : msgs[i] # QuietMsg})

\* the environment may deliver msg next
MayReceive(msgs, msg) ==
    /\ Len(msgs) < MaxMsgs
    /\ msg = QuietMsg \/ SpecialCount(msgs) < MaxSpecial

InitServer ==
    /\ spc = "open"
    /\ frames = <<>>
    /\ silent_chunks = 0
    /\ received = <<>>
    /\ recognizer_calls = <<>>
    /\ sent = <<>>

(***************************************************************************)
(* Lines 127-143 and 148-164: transcribe the segment, translate, send,     *)
(* reset.  buf and count are the locals at the time of the call.           *)
(***************************************************************************)
ServerTranscribe(buf, count) ==
    \/ \* mlx_whisper.transcribe raises: caught at line 165, the handler returns
       /\ recognizer_calls' = Append(recognizer_calls,
              [segment |-> buf, result |-> "raise", text |-> <<>>, translation |-> "none"])
       /\ spc' = "closed"
       /\ frames' = buf
       /\ silent_chunks' = count
       /\ sent' = sent
    \/ \E raw \in RawTexts :
         LET text == Normalize(raw) IN
         IF text = <<>>
         THEN /\ recognizer_calls' = Append(recognizer_calls,
                     [segment |-> buf, result |-> "ok", text |-> text, translation |-> "none"])
              /\ frames' = <<>>
              /\ silent_chunks' = 0
              /\ UNCHANGED <<spc, sent>>
         ELSE \E tr \in {"ok", "fail"} :
                LET translated == IF tr = "ok" THEN TranslatedText ELSE <<>> IN
                /\ recognizer_calls' = Append(recognizer_calls,
                       [segment |-> buf, result |-> "ok", text |-> text, translation |-> tr])
                /\ \/ \* websocket.send succeeds
                      /\ sent' = Append(sent, [text |-> text, translated |-> translated])
                      /\ frames' = <<>>
                      /\ silent_chunks' = 0
                      /\ spc' = spc
                   \/ \* websocket.send raises (connection lost): caught at line 165
                      /\ sent' = sent
                      /\ frames' = buf
                      /\ silent_chunks' = count
                      /\ spc' = "closed"

\* lines 115-143: one binary message
ServerBinary(f) ==
    /\ spc = "open"
    /\ received' = Append(received, BytesMsg(f))
    /\ IF f = EmptyFrame
       THEN \* np.max of an empty array raises ValueError: caught at line 165
            /\ spc' = "closed"
            /\ UNCHANGED <<frames, silent_chunks, recognizer_calls, sent>>
       ELSE LET count == UpdatedSilentChunks(silent_chunks, f)
                buf == Append(frames, Len(received) + 1)
            IN IF count > SILENCE_CHUNKS /\ buf # <<>>
               THEN ServerTranscribe(buf, count)
               ELSE /\ frames' = buf
                    /\ silent_chunks' = count
                    /\ UNCHANGED <<spc, recognizer_calls, sent>>
    /\ UNCHANGED <<localVars, clientVars, incVars, loadVars, sessionVars, feed>>

\* lines 144-164: one text message
ServerText(s) ==
    /\ spc = "open"
    /\ received' = Append(received, TextMsg(s))
    /\ LET cmd == Normalize(s) IN
       IF cmd = Eos /\ frames # <<>>
       THEN ServerTranscribe(frames, silent_chunks)
       ELSE UNCHANGED <<spc, frames, silent_chunks, recognizer_calls, sent>>
    /\ UNCHANGED <<localVars, clientVars, incVars, loadVars, sessionVars, feed>>

\* line 114: the connection closes, the async-for ends and the handler returns
ServerDisconnect ==
    /\ spc = "open"
    /\ spc' = "closed"
    /\ UNCHANGED <<frames, silent_chunks, received, recognizer_calls, sent>>
    /\ UNCHANGED <<localVars, clientVars, incVars, loadVars, sessionVars, feed>>

(***************************************************************************)
(* Local capture: transcribe_audio (lines 28-104).                         *)
(***************************************************************************)
InitLocal ==
    /\ lpc = "init"
    /\ local_mode = "none"
    /\ local_frames = <<>>
    /\ local_silent_chunks = 0
    /\ local_read = <<>>
    /\ local_calls = <<>>
    /\ local_out = <<>>
    /\ local_stream = <<0, 0>>
    /\ local_ret = "none"

\* frames read so far that are not the plain quiet frame
SpecialReads(reads) == Cardinality({i \in DOMAIN reads : reads[i] # Quiet})

\* the device may deliver f next
MayRead(reads, f) ==
    /\ Len(reads) < MaxReads
    /\ f = Quiet \/ SpecialReads(reads) < MaxSpecial

\* lines 30-38: the device is opened and the first capture starts
LocalStart(mode) ==
    /\ lpc = "init"
    /\ local_mode' = mode
    /\ \/ /\ lpc' = "listening"
          /\ local_stream' = <<local_stream[1] + 1, local_stream[2]>>
       \/ \* audio.open raises: no stream
          /\ lpc' = "raised"
          /\ local_stream' = local_stream
    /\ UNCHANGED <<local_frames, local_silent_chunks, local_read, local_calls,
                   local_out, local_ret>>
    /\ UNCHANGED <<serverVars, clientVars, incVars, loadVars, sessionVars, feed>>

\* stream.stop_stream(); stream.close(); audio.terminate()
ReleasedStream(st) == <<st[1], st[2] + 1>>

\* lines 99-104, then lines 37-38 when the outer loop goes round
LocalEndOfIteration ==
    IF local_mode = "single" \/ ~(local_mode = "interactive")
    THEN /\ local_stream' = ReleasedStream(local_stream)
         /\ lpc' = "returned"
         /\ local_ret' = "None"
         /\ UNCHANGED <<local_frames, local_silent_chunks>>
    ELSE /\ local_frames' = <<>>
         /\ local_silent_chunks' = 0
         /\ UNCHANGED <<local_stream, lpc, local_ret>>

\* lines 62-97: the capture is closed, buf is what was accumulated
LocalSegment(buf) ==
    IF buf = <<>>
    THEN /\ LocalEndOfIteration
         /\ UNCHANGED <<local_calls, local_out>>
    ELSE
    \/ \* mlx_whisper.transcribe raises: nothing catches it
       /\ local_calls' = Append(local_calls,
              [segment |-> buf, result |-> "raise", text |-> <<>>, translation |-> "none"])
       /\ lpc' = "raised"
       /\ UNCHANGED <<local_frames, local_silent_chunks, local_out, local_stream,
                      local_ret>>
    \/ \E raw \in RawTextsLocal :
         LET transcription == Normalize(raw) IN
         IF Len(transcription) = 0
         THEN /\ local_calls' = Append(local_calls,
                     [segment |-> buf, result |-> "ok", text |-> transcription,
                      translation |-> "none"])
              /\ local_out' = local_out
              /\ LocalEndOfIteration
         ELSE
         \/ \* requests.post or resp.json()['translatedText'] raises: nothing
            \* catches it; the transcription is already printed (line 73)
            /\ local_calls' = Append(local_calls,
                   [segment |-> buf, result |-> "ok", text |-> transcription,
                    translation |-> "fail"])
            /\ local_out' = Append(local_out, transcription)
            /\ lpc' = "raised"
            /\ UNCHANGED <<local_frames, local_silent_chunks, local_stream, local_ret>>
         \/ /\ local_calls' = Append(local_calls,
                   [segment |-> buf, result |-> "ok", text |-> transcription,
                    translation |-> "ok"])
            /\ local_out' = local_out \o <<transcription, TranslatedText>>
            /\ IF transcription = Exit
               THEN /\ local_stream' = ReleasedStream(local_stream)
                    /\ lpc' = "returned"
                    /\ local_ret' = "False"
                    /\ UNCHANGED <<local_frames, local_silent_chunks>>
               ELSE LocalEndOfIteration

\* lines 43-59 for one frame, and lines 62-104 when that frame closes the capture
LocalRead(f) ==
    /\ lpc = "listening"
    /\ local_read' = Append(local_read, f)
    /\ LET count == UpdatedSilentChunks(local_silent_chunks, f) IN
       IF count > SILENCE_CHUNKS
       THEN LocalSegment(local_frames)
       ELSE /\ local_frames' = Append(local_frames, Len(local_read) + 1)
            /\ local_silent_chunks' = count
            /\ UNCHANGED <<lpc, local_calls, local_out, local_stream, local_ret>>
    /\ UNCHANGED <<local_mode, serverVars, clientVars, incVars, loadVars, sessionVars, feed>>

\* line 45: stream.read raises (device failure): nothing catches it
LocalReadFails ==
    /\ lpc = "listening"
    /\ lpc' = "raised"
    /\ UNCHANGED <<local_mode, local_frames, local_silent_chunks, local_read,
                   local_calls, local_out, local_stream, local_ret>>
    /\ UNCHANGED <<serverVars, clientVars, incVars, loadVars, sessionVars, feed>>

(***************************************************************************)
(* Duplex client: ws_client_stream_mic (lines 178-219).                    *)
(***************************************************************************)
InitClient ==
    /\ cpc = "init"
    /\ client_stream = <<0, 0>>
    /\ client_ws = <<0, 0>>
    /\ sender = "none"
    /\ receiver = "none"
    /\ peer_open = FALSE
    /\ client_read = 0
    /\ client_sent = <<>>
    /\ client_got = <<>>
    /\ client_out = <<>>

\* what the server may send the client: a result, a result without text, and a
\* payload json.loads rejects
GoodResult == [json |-> TRUE, text |-> <<"h", "i">>, translated |-> TranslatedText]
EmptyResult == [json |-> TRUE, text |-> <<>>, translated |-> <<>>]
BadPayload == [json |-> FALSE, text |-> <<>>, translated |-> <<>>]
ClientInbound == {GoodResult, EmptyResult, BadPayload}

\* lines 182-183: the device is opened
ClientOpenDevice ==
    /\ cpc = "init"
    /\ \/ /\ cpc' = "connecting"
          /\ client_stream' = <<client_stream[1] + 1, client_stream[2]>>
       \/ \* audio.open raises
          /\ cpc' = "raised"
          /\ client_stream' = client_stream
    /\ UNCHANGED <<client_ws, sender, receiver, peer_open, client_read, client_sent,
                   client_got, client_out>>
    /\ UNCHANGED <<serverVars, localVars, incVars, loadVars, sessionVars, feed>>

\* lines 184-214: the transport is connected, both tasks are created and the
\* session waits for them
ClientConnect ==
    /\ cpc = "connecting"
    /\ \/ /\ cpc' = "running"
          /\ client_ws' = <<client_ws[1] + 1, client_ws[2]>>
          /\ sender' = "running"
          /\ receiver' = "running"
          /\ peer_open' = TRUE
       \/ \* websockets.connect raises: the exception leaves the function
          /\ cpc' = "raised"
          /\ UNCHANGED <<client_ws, sender, receiver, peer_open>>
    /\ UNCHANGED <<client_stream, client_read, client_sent, client_got, client_out>>
    /\ UNCHANGED <<serverVars, localVars, incVars, loadVars, sessionVars, feed>>

\* a sender that writes the frame it has read twice
SenderSendsTwice ==
    /\ cpc = "running"
    /\ sender = "running"
    /\ peer_open
    /\ client_read < MaxClientMsgs
    /\ client_read' = client_read + 1
    /\ client_sent' = client_sent \o <<client_read + 1, client_read + 1>>
    /\ UNCHANGED <<cpc, client_stream, client_ws, sender, receiver, peer_open,
                   client_got, client_out>>
    /\ UNCHANGED <<serverVars, localVars, incVars, loadVars, sessionVars, feed>>

\* lines 207-208: one frame read and sent
SenderSend ==
    /\ cpc = "running"
    /\ sender = "running"
    /\ peer_open
    /\ client_read < MaxClientMsgs
    /\ client_read' = client_read + 1
    /\ client_sent' = Append(client_sent, client_read + 1)
    /\ UNCHANGED <<cpc, client_stream, client_ws, sender, receiver, peer_open,
                   client_got, client_out>>
    /\ UNCHANGED <<serverVars, localVars, incVars, loadVars, sessionVars, feed>>

\* lines 207-210: one frame read, ws.send raises on the closed transport, the
\* exception is caught and send_task returns
SenderSendFails ==
    /\ cpc = "running"
    /\ sender = "running"
    /\ ~peer_open
    /\ client_read' = client_read + 1
    /\ sender' = "done"
    /\ UNCHANGED <<cpc, client_stream, client_ws, receiver, peer_open, client_sent,
                   client_got, client_out>>
    /\ UNCHANGED <<serverVars, localVars, incVars, loadVars, sessionVars, feed>>

\* lines 207, 209-210: stream.read raises (device failure), the exception is
\* caught and send_task returns
SenderDeviceFails ==
    /\ cpc = "running"
    /\ sender = "running"
    /\ sender' = "done"
    /\ UNCHANGED <<cpc, client_stream, client_ws, receiver, peer_open, client_read,
                   client_sent, client_got, client_out>>
    /\ UNCHANGED <<serverVars, localVars, incVars, loadVars, sessionVars, feed>>

\* lines 190-200: what one inbound message prints
Printed(msg) ==
    IF ~msg.json
    THEN <<>>
    ELSE (IF msg.text # <<>> THEN <<msg.text>> ELSE <<>>)
         \o (IF msg.translated # <<>> THEN <<msg.translated>> ELSE <<>>)

\* lines 188-200: one inbound message
ReceiverMsg(msg) ==
    /\ cpc = "running"
    /\ receiver = "running"
    /\ peer_open
    /\ Len(client_got) < MaxClientMsgs
    /\ client_got' = Append(client_got, msg)
    /\ client_out' = client_out \o Printed(msg)
    /\ UNCHANGED <<cpc, client_stream, client_ws, sender, receiver, peer_open,
                   client_read, client_sent>>
    /\ UNCHANGED <<serverVars, localVars, incVars, loadVars, sessionVars, feed>>

\* lines 188, 201-202: the transport is closed by the peer, recv_task returns
ReceiverEnds ==
    /\ cpc = "running"
    /\ receiver = "running"
    /\ ~peer_open
    /\ receiver' = "done"
    /\ UNCHANGED <<cpc, client_stream, client_ws, sender, peer_open, client_read,
                   client_sent, client_got, client_out>>
    /\ UNCHANGED <<serverVars, localVars, incVars, loadVars, sessionVars, feed>>

\* the server closes the connection
PeerCloses ==
    /\ cpc = "running"
    /\ peer_open
    /\ peer_open' = FALSE
    /\ UNCHANGED <<cpc, client_stream, client_ws, sender, receiver, client_read,
                   client_sent, client_got, client_out>>
    /\ UNCHANGED <<serverVars, localVars, incVars, loadVars, sessionVars, feed>>

\* asyncio.wait(..., return_when=FIRST_EXCEPTION): returns when a task has
\* finished by raising, or when every task has finished
WaitReturns(s, r) ==
    \/ s = "failed" \/ r = "failed"
    \/ s # "running" /\ r # "running"

\* line 216: task.cancel() for a task still pending
Cancelled(t) == IF t = "running" THEN "cancelled" ELSE t

\* lines 214-219: the wait returns, pending tasks are cancelled, the transport
\* is closed by the async-with and the device is released
ClientWaitReturns ==
    /\ cpc = "running"
    /\ WaitReturns(sender, receiver)
    /\ sender' = Cancelled(sender)
    /\ receiver' = Cancelled(receiver)
    /\ client_ws' = <<client_ws[1], client_ws[2] + 1>>
    /\ client_stream' = ReleasedStream(client_stream)
    /\ cpc' = "returned"
    /\ UNCHANGED <<peer_open, client_read, client_sent, client_got, client_out>>
    /\ UNCHANGED <<serverVars, localVars, incVars, loadVars, sessionVars, feed>>

\* line 214: the session itself is cancelled while it waits (asyncio.run on
\* Ctrl-C): CancelledError leaves through the async-with, which closes the
\* transport; lines 217-219 are not reached
ClientCancelled ==
    /\ cpc = "running"
    /\ sender' = Cancelled(sender)
    /\ receiver' = Cancelled(receiver)
    /\ client_ws' = <<client_ws[1], client_ws[2] + 1>>
    /\ cpc' = "raised"
    /\ UNCHANGED <<client_stream, peer_open, client_read, client_sent, client_got,
                   client_out>>
    /\ UNCHANGED <<serverVars, localVars, incVars, loadVars, sessionVars, feed>>

(***************************************************************************)
(* Incremental server: websocket_endpoint (stt_server.py lines 53-105).    *)
(***************************************************************************)
InitInc ==
    /\ ipc = "accepted"
    /\ rec_created = FALSE
    /\ inc_pending = FALSE
    /\ flush_count = 0
    /\ close_count = 0
    /\ inc_received = <<>>
    /\ inc_out = <<>>

\* what the client may send: audio, an empty binary message, text, a disconnect
Audio == [type |-> "bytes", data |-> "pcm"]
EmptyBytes == [type |-> "bytes", data |-> ""]
StopText == [type |-> "text", data |-> "stop"]
OtherText == [type |-> "text", data |-> "eos"]
Disconnect == [type |-> "disconnect", data |-> ""]
IncInbound == {Audio, EmptyBytes, StopText, OtherText, Disconnect}

\* rec.FinalResult(): Vosk answers with a JSON document in every case, with an
\* empty "text" when no audio is pending
FinalResult(pending) == IF pending THEN "{\"text\": \"hi\"}" ELSE "{\"text\": \"\"}"

\* line 97: rec.FinalResult() if 'rec' in locals() else None
FinalOrNone(rec, pending) == IF rec THEN FinalResult(pending) ELSE "None"

\* Python's truth value of line 97's final
Truthy(final) == final # "None" /\ final # ""

\* lines 94-105: the finally block; rec says whether the local rec exists,
\* connected whether a send can still reach the client, out is what was sent so
\* far, pc is where the function ends
IncFinally(rec, connected, out, pc) ==
    /\ flush_count' = IF rec THEN flush_count + 1 ELSE flush_count
    /\ inc_out' = IF Truthy(FinalOrNone(rec, inc_pending)) /\ connected
                  THEN Append(out, "final")
                  ELSE out
    /\ inc_pending' = FALSE
    /\ close_count' = close_count + 1
    /\ ipc' = pc

\* a setup that creates the recognizer and enters the stream loop without
\* announcing itself
IncSetupWithoutReady ==
    /\ ipc = "accepted"
    /\ rec_created' = TRUE
    /\ ipc' = "recv_bytes"
    /\ UNCHANGED <<inc_pending, flush_count, close_count, inc_out, inc_received>>
    /\ UNCHANGED <<serverVars, localVars, clientVars, loadVars, sessionVars, feed>>

\* lines 56-66: the model is loaded, the recognizer created, ready is sent
IncSetup ==
    /\ ipc = "accepted"
    /\ \/ \* load_model raises RuntimeError: finally, then the exception leaves
          /\ rec_created' = FALSE
          /\ IncFinally(FALSE, TRUE, inc_out, "raised")
       \/ /\ rec_created' = TRUE
          /\ inc_out' = Append(inc_out, "ready")
          /\ ipc' = "recv_bytes"
          /\ UNCHANGED <<inc_pending, flush_count, close_count>>
       \/ \* the recognizer exists but send_text raises (the client is gone):
          \* WebSocketDisconnect is swallowed at line 92, any other exception
          \* leaves; finally runs in both cases
          /\ rec_created' = TRUE
          /\ \E pc \in {"closed", "raised"} : IncFinally(TRUE, FALSE, inc_out, pc)
    /\ UNCHANGED inc_received
    /\ UNCHANGED <<serverVars, localVars, clientVars, loadVars, sessionVars, feed>>

\* lines 69-90: the loop waits in receive_bytes and msg arrives
IncReceiveBytes(msg) ==
    /\ ipc = "recv_bytes"
    /\ Len(inc_received) < MaxIncMsgs
    /\ inc_received' = Append(inc_received, msg)
    /\ CASE msg.type = "disconnect" ->
              \* WebSocketDisconnect: break, then finally
              IncFinally(rec_created, FALSE, inc_out, "closed")
         [] msg.type = "text" ->
              \* receive_bytes raises on the text message, which is consumed;
              \* the handler now waits in receive_text (line 76)
              /\ ipc' = "recv_text"
              /\ UNCHANGED <<inc_pending, flush_count, close_count, inc_out>>
         [] msg.type = "bytes" /\ msg.data = "" ->
              UNCHANGED <<ipc, inc_pending, flush_count, close_count, inc_out>>
         [] OTHER ->
              \/ \* AcceptWaveform: utterance boundary, Result is sent
                 /\ inc_out' = Append(inc_out, "result")
                 /\ inc_pending' = FALSE
                 /\ UNCHANGED <<ipc, flush_count, close_count>>
              \/ \* no boundary yet, PartialResult is sent
                 /\ inc_out' = Append(inc_out, "partial")
                 /\ inc_pending' = TRUE
                 /\ UNCHANGED <<ipc, flush_count, close_count>>
              \/ \* the recognizer raises: finally, then the exception leaves
                 IncFinally(rec_created, TRUE, inc_out, "raised")
    /\ UNCHANGED rec_created
    /\ UNCHANGED <<serverVars, localVars, clientVars, loadVars, sessionVars, feed>>

\* lines 74-79: the handler waits in receive_text and msg arrives
IncReceiveText(msg) ==
    /\ ipc = "recv_text"
    /\ Len(inc_received) < MaxIncMsgs
    /\ inc_received' = Append(inc_received, msg)
    /\ CASE msg.type = "disconnect" ->
              \* WebSocketDisconnect inside the handler: line 92, then finally
              IncFinally(rec_created, FALSE, inc_out, "closed")
         [] msg.type = "bytes" ->
              \* receive_text raises on the binary message: finally, then the
              \* exception leaves
              IncFinally(rec_created, TRUE, inc_out, "raised")
         [] OTHER ->
              IF msg.data = "stop"
              THEN IncFinally(rec_created, TRUE, inc_out, "closed")
              ELSE /\ ipc' = "recv_bytes"
                   /\ UNCHANGED <<inc_pending, flush_count, close_count, inc_out>>
    /\ UNCHANGED rec_created
    /\ UNCHANGED <<serverVars, localVars, clientVars, loadVars, sessionVars, feed>>

(***************************************************************************)
(* The shared model handle: load_model (stt_server.py lines 27-41), called *)
(* by health (line 47) and by websocket_endpoint (line 57).  A caller runs *)
(* on a thread; callers on one thread run load_model one after the other   *)
(* (the function has no await), callers on different threads interleave    *)
(* between its statements.                                                 *)
(***************************************************************************)
Callers == 1..MaxCallers
Threads == 1..MaxThreads
None == 0

InitLoad ==
    /\ _model = None
    /\ constructed = 0
    /\ load_pc = [c \in Callers |-> "idle"]
    /\ load_thread = [c \in Callers |-> 1]

\* caller c is between two statements of load_model
InLoadModel(c) == load_pc[c] \in {"checked", "found"}

\* line 32: caller c enters load_model on thread t and tests the handle
LoadCheck(c, t) ==
    /\ ~InLoadModel(c)
    /\ \A d \in Callers \ {c} : InLoadModel(d) => load_thread[d] # t
    /\ load_thread' = [load_thread EXCEPT ![c] = t]
    /\ load_pc' = [load_pc EXCEPT ![c] = IF _model # None THEN "returned" ELSE "checked"]
    /\ UNCHANGED <<_model, constructed>>
    /\ UNCHANGED <<serverVars, localVars, clientVars, incVars, sessionVars, feed>>

\* lines 34-39: the model directory is looked up
LoadExists(c) ==
    /\ load_pc[c] = "checked"
    /\ \E pc \in {"found", "raised"} : load_pc' = [load_pc EXCEPT ![c] = pc]
    /\ UNCHANGED <<_model, constructed, load_thread>>
    /\ UNCHANGED <<serverVars, localVars, clientVars, incVars, sessionVars, feed>>

\* lines 40-41: the Model is constructed and the handle assigned
LoadConstruct(c) ==
    /\ load_pc[c] = "found"
    /\ \/ /\ constructed' = constructed + 1
          /\ _model' = constructed + 1
          /\ load_pc' = [load_pc EXCEPT ![c] = "returned"]
       \/ \* Model() raises: the handle stays as it is
          /\ load_pc' = [load_pc EXCEPT ![c] = "raised"]
          /\ UNCHANGED <<_model, constructed>>
    /\ UNCHANGED load_thread
    /\ UNCHANGED <<serverVars, localVars, clientVars, incVars, sessionVars, feed>>

(***************************************************************************)
(* Concurrent sessions of one serving process.  websockets.serve (main.py  *)
(* line 174) and FastAPI (stt_server.py line 53) start one handler         *)
(* coroutine per connection; frames and silent_chunks (main.py lines       *)
(* 111-112) and rec (stt_server.py line 58) are locals of that coroutine.  *)
(* The event loop runs one handler at a time.                              *)
(***************************************************************************)
\* the locals and the connection of the handler that is running
ServerSession ==
    [pc |-> spc, frames |-> frames, silent_chunks |-> silent_chunks,
     received |-> received, recognizer_calls |-> recognizer_calls, sent |-> sent]
IncSession ==
    [pc |-> ipc, rec_created |-> rec_created, inc_pending |-> inc_pending,
     flush_count |-> flush_count, close_count |-> close_count,
     received |-> inc_received, out |-> inc_out]
NoSession == [pc |-> "none"]

InitSession ==
    /\ serving = "none"
    /\ cur = 1
    /\ other = NoSession

\* a switch that resumes the other handler but leaves the buffer and the
\* counter where they are, as if both handlers shared them
SwitchSessionSharedBuffer ==
    /\ serving \in {"batch", "inc"}
    /\ cur' = 3 - cur
    /\ IF serving = "batch"
       THEN /\ other' = ServerSession
            /\ spc' = other.pc
            /\ received' = other.received
            /\ recognizer_calls' = other.recognizer_calls
            /\ sent' = other.sent
            /\ UNCHANGED <<frames, silent_chunks>>
            /\ UNCHANGED incVars
       ELSE /\ other' = IncSession
            /\ ipc' = other.pc
            /\ rec_created' = other.rec_created
            /\ flush_count' = other.flush_count
            /\ close_count' = other.close_count
            /\ inc_received' = other.received
            /\ inc_out' = other.out
            /\ UNCHANGED inc_pending
            /\ UNCHANGED serverVars
    /\ UNCHANGED serving
    /\ UNCHANGED <<localVars, clientVars, loadVars, feed>>

\* the handlers wait for a message only between two messages (main.py line
\* 114, stt_server.py lines 71 and 76): there the event loop suspends the
\* running handler and resumes the other one with its own locals
SwitchSession ==
    /\ serving \in {"batch", "inc"}
    /\ cur' = 3 - cur
    /\ IF serving = "batch"
       THEN /\ other' = ServerSession
            /\ spc' = other.pc
            /\ frames' = other.frames
            /\ silent_chunks' = other.silent_chunks
            /\ received' = other.received
            /\ recognizer_calls' = other.recognizer_calls
            /\ sent' = other.sent
            /\ UNCHANGED incVars
       ELSE /\ other' = IncSession
            /\ ipc' = other.pc
            /\ rec_created' = other.rec_created
            /\ inc_pending' = other.inc_pending
            /\ flush_count' = other.flush_count
            /\ close_count' = other.close_count
            /\ inc_received' = other.received
            /\ inc_out' = other.out
            /\ UNCHANGED serverVars
    /\ UNCHANGED serving
    /\ UNCHANGED <<localVars, clientVars, loadVars, feed>>

(***************************************************************************)
(* Scripted feeds: k loud frames then 31 silent ones, and 40 silent ones.  *)
(***************************************************************************)
Repeat(x, n) == [i \in 1..n |-> x]

\* the frames whose peak amplitude is at least the threshold
LoudFrames == {Loud, MinRail}

Scenarios ==
    {Repeat(l, k) \o Repeat(Quiet, SILENCE_CHUNKS + 1) : l \in LoudFrames, k \in 1..MaxK}
    \cup {Repeat(Quiet, SILENCE_CHUNKS + 10)}

Init ==
    /\ InitServer
    /\ InitLocal
    /\ InitClient
    /\ InitInc
    /\ InitLoad
    /\ InitSession
    /\ feed = <<>>

InitScenario ==
    /\ InitServer
    /\ InitLocal
    /\ InitClient
    /\ InitInc
    /\ InitLoad
    /\ InitSession
    /\ feed \in Scenarios

NextServer ==
    \/ \E f \in FrameSet \cup {EmptyFrame} :
          MayReceive(received, BytesMsg(f)) /\ ServerBinary(f)
    \/ \E s \in TextSet : MayReceive(received, TextMsg(s)) /\ ServerText(s)
    \/ ServerDisconnect

NextLocal ==
    \/ \E mode \in {"single", "interactive"} : LocalStart(mode)
    \/ \E f \in FrameSet : MayRead(local_read, f) /\ LocalRead(f)
    \/ LocalReadFails

\* both segmenters are fed the same script, each at its own pace
NextScenario ==
    \/ Len(received) < Len(feed) /\ ServerBinary(feed[Len(received) + 1])
    \/ \E mode \in {"single", "interactive"} : LocalStart(mode)
    \/ Len(local_read) < Len(feed) /\ LocalRead(feed[Len(local_read) + 1])

NextClient ==
    \/ ClientOpenDevice
    \/ ClientConnect
    \/ SenderSend
    \/ SenderSendFails
    \/ SenderDeviceFails
    \/ \E msg \in ClientInbound : ReceiverMsg(msg)
    \/ ReceiverEnds
    \/ PeerCloses
    \/ ClientWaitReturns
    \/ ClientCancelled

NextInc ==
    \/ IncSetup
    \/ \E msg \in IncInbound : IncReceiveBytes(msg)
    \/ \E msg \in IncInbound : IncReceiveText(msg)

SpecServer == Init /\ [][NextServer]_vars

SpecLocal == Init /\ [][NextLocal]_vars

SpecScenario == InitScenario /\ [][NextScenario]_vars

SpecClient == Init /\ [][NextClient]_vars

SpecInc == Init /\ [][NextInc]_vars

NextLoad ==
    \/ \E c \in Callers, t \in Threads : LoadCheck(c, t)
    \/ \E c \in Callers : LoadExists(c)
    \/ \E c \in Callers : LoadConstruct(c)

SpecLoad == Init /\ [][NextLoad]_vars

\* one serving process, two connections: the event loop runs one handler at a
\* time and goes from one to the other where they wait for a message
InitSessions ==
    /\ InitServer
    /\ InitLocal
    /\ InitClient
    /\ InitInc
    /\ InitLoad
    /\ serving \in {"batch", "inc"}
    /\ cur = 1
    /\ other = IF serving = "batch" THEN ServerSession ELSE IncSession
    /\ feed = <<>>

NextSessions ==
    \/ /\ serving = "batch"
       /\ Len(received) < MaxSessionMsgs
       /\ \/ \E f \in FrameSet \cup {EmptyFrame} : ServerBinary(f)
          \/ \E s \in TextSet : ServerText(s)
          \/ ServerDisconnect
    \/ /\ serving = "inc"
       /\ Len(inc_received) < MaxSessionMsgs
       /\ \/ IncSetup
          \/ \E msg \in IncInbound : IncReceiveBytes(msg)
          \/ \E msg \in IncInbound : IncReceiveText(msg)
    \/ SwitchSession

SpecSessions == InitSessions /\ [][NextSessions]_vars

(***************************************************************************)
(* Vocabulary of the properties.                                           *)
(***************************************************************************)
\* the peak amplitude of a frame: the largest absolute value of its samples
Amplitude(x) == IF x < 0 THEN 0 - x ELSE x
TruePeak(f) == MaxOfSet({Amplitude(f[i]) : i \in DOMAIN f})

\* the segments of a sequence of recognizer calls, and their concatenation
RECURSIVE Concatenated(_)
Concatenated(calls) ==
    IF calls = <<>> THEN <<>> ELSE calls[1].segment \o Concatenated(Tail(calls))

\* the positions of the binary messages of msgs, in order
RECURSIVE FramePositions(_, _)
FramePositions(msgs, n) ==
    IF n = 0 THEN <<>>
    ELSE FramePositions(msgs, n - 1) \o (IF msgs[n].type = "bytes" THEN <<n>> ELSE <<>>)

\* this step of the batch server takes a binary message / a text message
ServerTakesBytes ==
    /\ Len(received') = Len(received) + 1
    /\ received'[Len(received')].type = "bytes"
ServerTakesText ==
    /\ Len(received') = Len(received) + 1
    /\ received'[Len(received')].type = "text"

\* this step hands a segment to the recognizer
ServerEmits == Len(recognizer_calls') = Len(recognizer_calls) + 1
LocalEmits == Len(local_calls') = Len(local_calls) + 1
LastCall(calls) == calls[Len(calls)]

\* the script is k loud frames followed by 31 silent ones
LoudThenSilent == feed # <<>> /\ TruePeak(feed[1]) >= SILENCE_THRESHOLD
LoudCount == Len(feed) - (SILENCE_CHUNKS + 1)

(***************************************************************************)
(* C1.  A binary-frame step of the batch server hands a segment to the     *)
(* recognizer exactly when the counter, updated for that frame, exceeds    *)
(* SILENCE_CHUNKS and the buffer is non-empty; that step leaves the buffer *)
(* empty and the counter 0; every other binary-frame step only appends the *)
(* frame and updates the counter.                                          *)
(***************************************************************************)
C1_GateEmitsAndResets ==
    [][ServerTakesBytes =>
          LET f == received'[Len(received')].data
              count == IF f = EmptyFrame THEN silent_chunks
                       ELSE UpdatedSilentChunks(silent_chunks, f)
              buf == IF f = EmptyFrame THEN frames ELSE Append(frames, Len(received'))
          IN /\ ServerEmits <=> (f # EmptyFrame /\ count > SILENCE_CHUNKS /\ buf # <<>>)
             /\ ServerEmits => frames' = <<>> /\ silent_chunks' = 0
             /\ ~ServerEmits => frames' = buf /\ silent_chunks' = count]_vars

(***************************************************************************)
(* C2.  Fed k >= 1 loud frames (peak >= SILENCE_THRESHOLD) and then 31     *)
(* silent frames, a fresh session hands over exactly one segment, does so  *)
(* when the 31st silent frame is processed and not before, and the segment *)
(* holds exactly the k loud frames.  Stated of the batch server and of the *)
(* local capture loop.                                                     *)
(***************************************************************************)
C2_LoudThenSilenceOneSegment ==
    LoudThenSilent =>
        /\ Len(recognizer_calls) <= 1
        /\ recognizer_calls # <<>> <=> Len(received) >= Len(feed)
        /\ recognizer_calls # <<>> =>
               recognizer_calls[1].segment = [i \in 1..LoudCount |-> i]
        /\ Len(local_calls) <= 1
        /\ local_calls # <<>> <=> Len(local_read) >= Len(feed)
        /\ local_calls # <<>> => local_calls[1].segment = [i \in 1..LoudCount |-> i]

(***************************************************************************)
(* C3.  As long as a fresh session has been fed nothing but frames whose   *)
(* peak is below the threshold, no segment has been handed to the          *)
(* recognizer.  Stated of the batch server and of the local capture loop.  *)
(***************************************************************************)
C3_SilenceNeverEmits ==
    /\ (\A i \in DOMAIN received :
            /\ received[i].type = "bytes"
            /\ received[i].data # EmptyFrame
            /\ TruePeak(received[i].data) < SILENCE_THRESHOLD)
       => recognizer_calls = <<>>
    /\ (\A i \in DOMAIN local_read : TruePeak(local_read[i]) < SILENCE_THRESHOLD)
       => local_calls = <<>>

(***************************************************************************)
(* C4.  The buffer is cleared in a step exactly when that step hands over  *)
(* a segment, and at every hand-over the segments handed over so far,      *)
(* concatenated, are the frames received so far: none dropped, none twice, *)
(* none out of order.  Stated of the batch server and of the local capture *)
(* loop.                                                                   *)
(***************************************************************************)
C4_ClearedIffEmitted ==
    [][/\ (ServerTakesBytes \/ ServerTakesText) =>
              (ServerEmits <=> (frames' = <<>> /\ (frames # <<>> \/ ServerTakesBytes)))
       /\ ServerEmits =>
              Concatenated(recognizer_calls') = FramePositions(received', Len(received'))
       /\ LocalEmits =>
              Concatenated(local_calls') = [i \in 1..Len(local_read') |-> i]]_vars

(***************************************************************************)
(* C5.  A text message that is the eos command, taken while the buffer is  *)
(* non-empty, hands the whole buffer over as one segment whatever the      *)
(* counter is, and leaves the buffer empty and the counter 0; an eos taken *)
(* while the buffer is empty, and any other text message, hands nothing    *)
(* over and changes neither the buffer nor the counter.                    *)
(***************************************************************************)
C5_EosForcesSegment ==
    [][ServerTakesText =>
          IF Normalize(received'[Len(received')].data) = Eos /\ frames # <<>>
          THEN /\ ServerEmits
               /\ LastCall(recognizer_calls').segment = frames
               /\ frames' = <<>>
               /\ silent_chunks' = 0
          ELSE /\ ~ServerEmits
               /\ UNCHANGED <<frames, silent_chunks>>]_vars

(***************************************************************************)
(* C6.  When a segment was recognized to non-empty text and the            *)
(* translation call fails, the transcription is still delivered, with an   *)
(* empty translation, and the session goes on: in the batch server (both   *)
(* paths) and in the local capture loop.                                   *)
(***************************************************************************)
C6_TranslationFailureIsolated ==
    [][/\ (ServerEmits /\ LastCall(recognizer_calls').translation = "fail") =>
              /\ sent' = Append(sent, [text |-> LastCall(recognizer_calls').text,
                                       translated |-> <<>>])
              /\ spc' = "open"
       /\ (LocalEmits /\ LastCall(local_calls').translation = "fail") =>
              /\ local_out' = Append(local_out, LastCall(local_calls').text)
              /\ lpc' # "raised"]_vars

(***************************************************************************)
(* C7.  When the recognizer raises on a segment, no result is sent for it  *)
(* and the session goes on listening, with an empty buffer and a zero      *)
(* counter.                                                                *)
(***************************************************************************)
C7_RecognizerFailureRecoverable ==
    [][/\ (ServerEmits /\ LastCall(recognizer_calls').result = "raise") =>
              /\ sent' = sent
              /\ spc' = "open"
              /\ frames' = <<>>
              /\ silent_chunks' = 0
       /\ (LocalEmits /\ LastCall(local_calls').result = "raise") =>
              /\ local_out' = local_out
              /\ lpc' = "listening"]_vars

(***************************************************************************)
(* C8.  As soon as either task of the duplex client has finished while the *)
(* session waits for them, the wait is over: the session can cancel the    *)
(* other task and go on to teardown without the peer closing the           *)
(* transport.                                                              *)
(***************************************************************************)
C8_FirstFinishedEndsSession ==
    (cpc = "running" /\ (sender = "done" \/ receiver = "done"))
        => ENABLED ClientWaitReturns

(***************************************************************************)
(* C9.  Whenever ws_client_stream_mic or transcribe_audio has been left,   *)
(* by return or by exception, the device and the transport were each       *)
(* acquired at most once and released exactly as often as acquired.        *)
(***************************************************************************)
C9_ResourcesReleasedOnEveryExit ==
    /\ cpc \in {"returned", "raised"} =>
           /\ client_stream[1] <= 1 /\ client_stream[2] = client_stream[1]
           /\ client_ws[1] <= 1 /\ client_ws[2] = client_ws[1]
    /\ lpc \in {"returned", "raised"} =>
           /\ local_stream[1] <= 1 /\ local_stream[2] = local_stream[1]

(***************************************************************************)
(* C10.  In the incremental server FinalResult is called exactly once in   *)
(* every session that created a recognizer, however the stream loop ends;  *)
(* a final message is sent only if audio is pending; nothing is sent after *)
(* the flush step; ws.close is then called exactly once.                   *)
(***************************************************************************)
C10_FlushOnceFinalOnlyIfPending ==
    /\ [](flush_count <= 1 /\ close_count <= 1)
    /\ [](ipc \in {"closed", "raised"} =>
              /\ rec_created => flush_count = 1
              /\ close_count = 1)
    /\ [][/\ (Len(inc_out') = Len(inc_out) + 1 /\ inc_out'[Len(inc_out')] = "final")
                 => inc_pending
          /\ flush_count >= 1 => inc_out' = inc_out]_vars

(***************************************************************************)
(* Vocabulary of the incremental server's properties.                      *)
(***************************************************************************)
\* this step of the incremental server takes msg from the client
IncTakes(msg) ==
    /\ Len(inc_received') = Len(inc_received) + 1
    /\ inc_received'[Len(inc_received')] = msg

\* this step runs the flush and closes the transport
IncFlushesAndCloses ==
    /\ flush_count' = flush_count + 1
    /\ close_count' = close_count + 1

(***************************************************************************)
(* C11.  In the incremental server the step that takes the text message    *)
(* "stop" ends the session by itself: it leaves the stream loop, runs the  *)
(* flush and closes the transport, without waiting for a further message.  *)
(***************************************************************************)
C11_StopEndsSessionByItself ==
    [][IncTakes(StopText) => (ipc' = "closed" /\ IncFlushesAndCloses)]_vars

\* the number of ready messages in out
ReadyCount(out) == Cardinality({i \in DOMAIN out : out[i] = "ready"})

(***************************************************************************)
(* C12.  As claimed: a session of the incremental server that has ended    *)
(* has sent exactly one ready message, and whatever a session has sent     *)
(* starts with its ready message.                                          *)
(***************************************************************************)
C12_ExactlyOneReady ==
    /\ ipc \in {"closed", "raised"} => ReadyCount(inc_out) = 1
    /\ inc_out # <<>> => inc_out[1] = "ready"

(***************************************************************************)
(* C12, amended.  A session of the incremental server sends at most one    *)
(* ready message and sends it before anything else: whatever it has sent   *)
(* starts with ready, and a session that is in its stream loop has sent    *)
(* exactly one.  A session whose setup fails (the model cannot be loaded,  *)
(* or the ready message cannot be written) ends without a ready message    *)
(* and without any other message.                                          *)
(***************************************************************************)
C12_ReadyFirstAtMostOnce ==
    /\ ReadyCount(inc_out) <= 1
    /\ inc_out # <<>> => inc_out[1] = "ready"
    /\ ipc \in {"recv_bytes", "recv_text"} => ReadyCount(inc_out) = 1
    /\ (ipc \in {"closed", "raised"} /\ inc_received = <<>>) => inc_out = <<>>

\* a session that sent ready, a partial, a result and a final, and has ended
C12_Witness ==
    /\ ipc = "closed"
    /\ inc_out = <<"ready", "partial", "result", "partial", "final">>

(***************************************************************************)
(* C13.  In the incremental server every step that takes a non-empty audio *)
(* frame sends exactly one message, a result or a partial, before the next *)
(* message is taken, and the session goes on receiving; a result ends the  *)
(* utterance (nothing is pending after it), a partial leaves it pending.   *)
(***************************************************************************)
C13_OneMessagePerAudioFrame ==
    [][IncTakes(Audio) =>
          /\ \/ inc_out' = Append(inc_out, "result") /\ ~inc_pending'
             \/ inc_out' = Append(inc_out, "partial") /\ inc_pending'
          /\ ipc' = "recv_bytes"]_vars

(***************************************************************************)
(* C14.  In the client's send_task the frames written to the transport     *)
(* are, in order and each once, the frames read from the device, except    *)
(* possibly the last frame read: the k-th message written is the k-th      *)
(* frame read, and at most one frame has been read and not written.        *)
(***************************************************************************)
C14_SentIsPrefixOfRead ==
    /\ client_sent = [i \in 1..Len(client_sent) |-> i]
    /\ Len(client_sent) <= client_read
    /\ client_read <= Len(client_sent) + 1

\* the sender has written two frames, read a third and failed to write it
C14_Witness ==
    /\ sender = "done"
    /\ client_read = Len(client_sent) + 1
    /\ Len(client_sent) >= 2

(***************************************************************************)
(* C15.  Whatever the interleaving of the callers of load_model, on one    *)
(* thread or on several, at most one Model is constructed in the process,  *)
(* and once the handle _model is not None no step assigns it again.        *)
(***************************************************************************)
C15_ModelConstructedOnce ==
    /\ [](constructed <= 1)
    /\ [][_model # None => _model' = _model]_vars

(***************************************************************************)
(* Vocabulary of the properties of concurrent sessions.                    *)
(***************************************************************************)
\* the locals and the connection of session i
SessionOf(i) ==
    IF cur # i THEN other
    ELSE IF serving = "batch" THEN ServerSession ELSE IncSession

\* session i has ended: its handler has returned or an exception has left it
Ended(i) == SessionOf(i).pc \in {"closed", "raised"}

\* the running handler can take a message
CurrentCanTake ==
    \/ \E f \in FrameSet : ServerBinary(f)
    \/ \E msg \in IncInbound : IncReceiveBytes(msg)
    \/ \E msg \in IncInbound : IncReceiveText(msg)
    \/ IncSetup

ReceiverTakes(msg) ==
    /\ Len(client_got') = Len(client_got) + 1
    /\ client_got'[Len(client_got')] = msg

\* the last n messages of msgs exist and are all msg
LastAre(msgs, n, msg) ==
    /\ Len(msgs) >= n
    /\ \A i \in (Len(msgs) - n + 1)..Len(msgs) : msgs[i] = msg

\* a text message of the batch server that is not a command
UnknownCommand(m) == m.type = "text" /\ Normalize(m.data) # Eos

(***************************************************************************)
(* C17.  A malformed inbound message is skipped: an undecodable payload    *)
(* taken by the client, and a text message that is not a command taken by  *)
(* the batch server, print or send nothing, leave the session's state as   *)
(* it was, and the session goes on; unless it is the peer's repeated       *)
(* violation (the RepeatedViolations-th malformed message in a row), which *)
(* ends the session.                                                       *)
(***************************************************************************)
C17_MalformedSkippedRepeatedFatal ==
    [][/\ ReceiverTakes(BadPayload) =>
              IF LastAre(client_got', RepeatedViolations, BadPayload)
              THEN receiver' # "running"
              ELSE /\ client_out' = client_out
                   /\ receiver' = "running"
                   /\ UNCHANGED <<cpc, sender, client_sent>>
       /\ (ServerTakesText /\ UnknownCommand(LastCall(received'))) =>
              IF LastAre(received', RepeatedViolations, LastCall(received'))
              THEN spc' = "closed"
              ELSE UNCHANGED <<spc, frames, silent_chunks, recognizer_calls, sent>>]_vars

(***************************************************************************)
(* C18.  Local capture.  In single mode the step that closes the first     *)
(* capture processes it, releases the device and returns.  In interactive  *)
(* mode a step that closes a capture whose transcription is not "exit"     *)
(* starts the next capture; the function is left only by the step whose    *)
(* transcription is "exit", which releases the device and returns False.   *)
(* In both modes listening ends only in a step that has processed a        *)
(* capture, with the device released and the function returned.            *)
(***************************************************************************)
C18_SingleOnceInteractiveUntilExit ==
    [][/\ (lpc = "listening" /\ lpc' # "listening") =>
              /\ LocalEmits
              /\ lpc' = "returned"
              /\ local_stream' = ReleasedStream(local_stream)
              /\ local_mode = "interactive" =>
                     (LastCall(local_calls').text = Exit /\ local_ret' = "False")
       /\ (LocalEmits /\ local_mode = "single") =>
              (lpc' = "returned" /\ Len(local_calls') = 1)
       /\ (LocalEmits /\ local_mode = "interactive"
               /\ LastCall(local_calls').text # Exit) =>
              (lpc' = "listening" /\ local_frames' = <<>> /\ local_silent_chunks' = 0)]_vars

\* the length of the trailing run of frames of buf (positions in msgs) whose
\* peak amplitude is below the threshold
RECURSIVE TrailingSilentRun(_, _)
TrailingSilentRun(msgs, buf) ==
    IF buf = <<>> THEN 0
    ELSE IF TruePeak(msgs[buf[Len(buf)]].data) >= SILENCE_THRESHOLD THEN 0
    ELSE 1 + TrailingSilentRun(msgs, SubSeq(buf, 1, Len(buf) - 1))

(***************************************************************************)
(* C19.  Between two messages of a batch-server session the silent counter *)
(* is the length of the trailing run of below-threshold frames in the      *)
(* buffer: 0 right after a frame whose peak amplitude is at least          *)
(* SILENCE_THRESHOLD, never above SILENCE_CHUNKS, never above the number   *)
(* of buffered frames.                                                     *)
(***************************************************************************)
C19_CounterIsTrailingSilentRun ==
    spc = "open" =>
        /\ silent_chunks = TrailingSilentRun(received, frames)
        /\ 0 <= silent_chunks
        /\ silent_chunks <= SILENCE_CHUNKS
        /\ silent_chunks <= Len(frames)

(***************************************************************************)
(* C20.  Fed the same frames, the local capture loop and the batch server  *)
(* segment alike: when both have taken the same number of frames they have *)
(* closed the same number of segments (each segment is closed on the same  *)
(* frame), and the segments they have handed to the recognizer hold the    *)
(* same frames.                                                            *)
(***************************************************************************)
C20_LocalAndServerSegmentAlike ==
    /\ Len(received) = Len(local_read) /\ lpc # "init"
           => Len(recognizer_calls) = Len(local_calls)
    /\ \A i \in DOMAIN recognizer_calls \cap DOMAIN local_calls :
           recognizer_calls[i].segment = local_calls[i].segment

====
